---- MODULE Spec2Model ----
(***************************************************************************)
(* Verification model of the AI music video generator's analysis pipeline: *)
(*   - AnalysisQueue (services/analysisQueue.ts): bounded-concurrency FIFO *)
(*     scheduler with pre-dispatch cancellation;                           *)
(*   - videoAnalysisService: the runningTasks registry, the singleton      *)
(*     worker, per-task timeout and teardown;                              *)
(*   - App.tsx: the clip library, handleClipsAdded, handleCancelAnalysis   *)
(*     and handleRetryAnalysis.                                            *)
(* Each component has its own specification over the shared variables:     *)
(* SpecQueue, SpecVideo and SpecApp.                                       *)
(***************************************************************************)
EXTENDS Integers, Sequences, FiniteSets, Bags, TLC

\* ------------------------------------------------------------------ bounds
MaxTasks == 5            \* pushes explored per AnalysisQueue
MaxFairTasks == 3        \* pushes explored when running tasks must finish
MaxConcurrentArg == 2    \* constructor arguments explored: 0..MaxConcurrentArg

MaxFiles == 2            \* distinct file identities given to the video service
MaxVTasks == 2           \* registrations explored in runningTasks
MaxCalls == 2            \* analyzeVideoContent calls explored
MaxWorkers == 2          \* worker instances created

MaxATasks == 2           \* analyzeAudio calls explored
MaxAWorkers == 2         \* audio worker instances created

MaxSamples == 5          \* samples of an audio buffer given to analyzeEnergy
MaxOdf == 10             \* frames of the combined ODF given to the peak picking
MaxPixels == 2           \* pixels of an arbitrary sampled video frame
MaxDecisions == 2        \* edit decisions in a response of the model
MaxInstances == 2        \* GoogleGenAI instances constructed by getGenAI

MaxClips == 2            \* distinct clip identities offered to the App
MaxBatches == 2          \* handleClipsAdded invocations awaiting getClipMetadata at once
MaxAppTasks == 3         \* tasks the App pushes to its queue (at most MaxTasks)

TaskIds == 0 .. (MaxTasks - 1)
ClipIds == 1 .. MaxClips
FileIds == 1 .. MaxFiles
VTaskIds == 1 .. MaxVTasks
AudioIds == 0 .. (MaxATasks - 1)

\* ------------------------------------------------------- AnalysisQueue state
VARIABLES
  maxConcurrent,   \* AnalysisQueue.maxConcurrent
  running,         \* AnalysisQueue.running
  queue,           \* AnalysisQueue.queue: sequence of waiting task ids
  nextTaskId,      \* AnalysisQueue.nextTaskId
  promise,         \* per task id: state of the promise returned by push
  work,            \* per task id: progress of taskFn
  taskFn,          \* per task id: how the pushed taskFn behaves when called
  started,         \* history: task ids in the order runTask began executing
  lastOp           \* history: the queue operation that produced this state

qvars == <<maxConcurrent, running, queue, nextTaskId, promise, work, taskFn,
           started, lastOp>>

\* --------------------------------------------- videoAnalysisService state
VARIABLES
  worker,          \* module variable worker: 0 is null, n > 0 the n-th instance
  workersCreated,  \* history: number of Worker instances constructed
  runningTasks,    \* Map fileId -> RunningTask: 0 is "no entry"
  vtask,           \* per RunningTask object: its fields and its frame job
  nextVTask,       \* number of RunningTask objects created so far
  calls            \* history: one record per analyzeVideoContent call

vvars == <<worker, workersCreated, runningTasks, vtask, nextVTask, calls>>

\* ------------------------------------- audioAnalysisWorkerService state
VARIABLES
  audioWorker,          \* module variable worker: 0 is null, n > 0 the n-th instance
  audioWorkersCreated,  \* history: number of Worker instances constructed
  audioRunningTasks,    \* Map id -> {resolve, reject}: the set of its keys
  audioNextTaskId,      \* module variable nextTaskId
  audioTask             \* per task id: its promise and the job posted for it

auvars == <<audioWorker, audioWorkersCreated, audioRunningTasks,
            audioNextTaskId, audioTask>>

\* ------------------------------------------- signal-processing functions
VARIABLES
  buffer,          \* analyzeEnergy: the AudioBuffer (sampleRate, channel 0 data)
  energySegments   \* analyzeEnergy: whether it returned, and the returned list


VARIABLES
  combinedOdf,     \* analyzeBeats: sampleRate and the combined ODF (units of 0.01)
  beatAnalysis     \* analyzeBeats: whether it resolved, and { bpm, beats }


VARIABLES
  sampled,         \* video frames: the duration and the bitmaps extracted
  frameAnalysis    \* video frames: whether the worker replied, and its message


pvars == <<buffer, energySegments, combinedOdf, beatAnalysis, sampled,
          frameAnalysis>>

\* ------------------------------------------- Gemini services and upload
VARIABLES
  sequenceCall,    \* createVideoSequence: the copy called, clips, the response
  sequenceResult   \* createVideoSequence: whether it settled, and how

VARIABLES
  ai,              \* geminiClient: 0 is null, n > 0 the n-th instance, n < 0 a mock
  apiKey,          \* process.env.API_KEY: "unset", "" or a key
  constructed,     \* history: number of runs of the GoogleGenAI constructor
  getResult        \* the last getGenAI call: whether it threw, what it returned

VARIABLES
  upload,          \* VideoUpload: the clipLibrary prop and allSelectedFiles
  submit           \* VideoUpload: whether handleSubmit ran, and what it did

gvars == <<sequenceCall, sequenceResult, ai, apiKey, constructed, getResult,
          upload, submit>>

\* ------------------------------------------------------------ App state
VARIABLES
  clipLibrary,       \* useState clipLibrary: per clip identity its record
  cancellableTasks,  \* useState cancellableTasks: clip id -> task id, -1 none
  db,                \* dbService clip store: per clip identity the stored status
  batches,           \* bag of handleClipsAdded invocations awaiting getClipMetadata
  taskClip,          \* per queue task id: metadata.id captured by its closure
  phase              \* per queue task id: position inside the task closure

avars == <<clipLibrary, cancellableTasks, db, batches, taskClip,
           phase>>

\* What the steps of one component leave alone: the other components.
exQueue == <<vvars, auvars, avars, pvars, gvars>>
exVideo == <<qvars, auvars, avars, pvars, gvars>>
exAudio == <<qvars, vvars, avars, pvars, gvars>>
exApp == <<vvars, auvars, pvars, gvars>>
exPure == <<qvars, vvars, auvars, avars, gvars>>
exGlue == <<qvars, vvars, auvars, avars, pvars>>

\* No signal-processing function has been given an input.
NoInput == <<>>
NotReturned == [returned |-> FALSE, value |-> <<>>]
\* Neither Gemini service nor the upload form has been used.
InitGlue ==
  /\ sequenceCall = NoInput
  /\ sequenceResult = NotReturned
  /\ ai = 0
  /\ apiKey = "unset"
  /\ constructed = 0
  /\ getResult = NotReturned
  /\ upload = NoInput
  /\ submit = NotReturned

InitPure ==
  /\ InitGlue
  /\ buffer = NoInput
  /\ energySegments = NotReturned
  /\ combinedOdf = NoInput
  /\ beatAnalysis = NotReturned
  /\ sampled = NoInput
  /\ frameAnalysis = NotReturned

\* The video and the audio service share no state: a session of the model
\* exercises one of them.
VideoUnused == nextVTask = 0 /\ calls = <<>>
AudioUnused == audioNextTaskId = 0

\* Math.max and Math.min
MathMax(a, b) == IF a >= b THEN a ELSE b
MathMin(a, b) == IF a <= b THEN a ELSE b

\* All values of the queue object gathered in one record, so that the methods
\* can be written as functions from queue state to queue state.
Q == [maxConcurrent |-> maxConcurrent, running |-> running, queue |-> queue,
      nextTaskId |-> nextTaskId, promise |-> promise, work |-> work,
      taskFn |-> taskFn, started |-> started]

SetQ(q) ==
  /\ maxConcurrent' = q.maxConcurrent
  /\ running' = q.running
  /\ queue' = q.queue
  /\ nextTaskId' = q.nextTaskId
  /\ promise' = q.promise
  /\ work' = q.work
  /\ taskFn' = q.taskFn
  /\ started' = q.started

InitQ(q) ==
  /\ maxConcurrent = q.maxConcurrent
  /\ running = q.running
  /\ queue = q.queue
  /\ nextTaskId = q.nextTaskId
  /\ promise = q.promise
  /\ work = q.work
  /\ taskFn = q.taskFn
  /\ started = q.started

\* No method has been called yet.
NoOp == [op |-> "init", id |-> -1, ret |-> FALSE]

\* new AnalysisQueue(arg)
constructor(arg) ==
  [maxConcurrent |-> MathMax(1, arg), running |-> 0, queue |-> <<>>,
   nextTaskId |-> 0,
   promise |-> [t \in TaskIds |-> "none"],
   work |-> [t \in TaskIds |-> "none"],
   taskFn |-> [t \in TaskIds |-> "none"],
   started |-> <<>>]

\* A promise settles once; later resolve/reject calls are ignored.
settle(p, outcome) == IF p = "pending" THEN outcome ELSE p

\* Guard of the while loop of next().
canDispatchOffByOne(q) == q.running <= q.maxConcurrent /\ Len(q.queue) > 0
canDispatch(q) == q.running < q.maxConcurrent /\ Len(q.queue) > 0

\* this.queue.shift(): the removed element and the remaining array.
pop(s) == [task |-> s[Len(s)], rest |-> SubSeq(s, 1, Len(s) - 1)]
shift(s) == [task |-> Head(s), rest |-> Tail(s)]

\* The finally block of runTask: this.running--, then this.next() (the call
\* of next is made by the callers below, which own the recursion).
finallyNoDecrement(q) == q
finally(q) == [q EXCEPT !.running = q.running - 1]

\* try/catch of runTask once taskFn has produced its outcome.
settleShared(q, id, ok) ==
  [q EXCEPT !.promise = [t \in TaskIds |->
                           IF q.promise[t] = "pending" /\ (t = id \/ ~ok)
                           THEN (IF ok THEN "resolved" ELSE "rejected")
                           ELSE q.promise[t]],
            !.work[id] = IF ok THEN "returned" ELSE "threw"]
settleTask(q, id, ok) ==
  [q EXCEPT !.promise[id] = settle(q.promise[id],
                                   IF ok THEN "resolved" ELSE "rejected"),
            !.work[id] = IF ok THEN "returned" ELSE "threw"]

RECURSIVE next(_)
RECURSIVE runTask(_, _)

\* runTask up to its first suspension: running++ and the call of taskFn. A
\* taskFn that throws before returning a promise falls through catch and
\* finally in the same turn.
runTask(q, id) ==
  LET q1 == [q EXCEPT !.running = q.running + 1,
                      !.work[id] = "running",
                      !.started = Append(q.started, id)]
  IN IF q.taskFn[id] = "throws"
     THEN next(finally(settleTask(q1, id, FALSE)))
     ELSE q1

next(q) ==
  IF canDispatch(q)
  THEN LET s == shift(q.queue)
       IN next(runTask([q EXCEPT !.queue = s.rest], s.task))
  ELSE q

\* push(taskFn): the promise executor enqueues the task and calls next().
pushNoNext(q, fn) ==
  LET id == q.nextTaskId
  IN [q EXCEPT !.nextTaskId = id + 1,
               !.promise[id] = "pending",
               !.work[id] = "idle",
               !.taskFn[id] = fn,
               !.queue = Append(q.queue, id)]
push(q, fn) ==
  LET id == q.nextTaskId
      q1 == [q EXCEPT !.nextTaskId = id + 1,
                      !.promise[id] = "pending",
                      !.work[id] = "idle",
                      !.taskFn[id] = fn,
                      !.queue = Append(q.queue, id)]
  IN next(q1)

\* Resumption of runTask when the promise returned by taskFn settles.
resumeRunTask(q, id, ok) == next(finally(settleTask(q, id, ok)))

\* findIndex(t => t.id === id): 0 stands for -1.
findIndex(s, id) ==
  IF \E i \in 1 .. Len(s) : s[i] = id
  THEN CHOOSE i \in 1 .. Len(s) : s[i] = id /\ \A j \in 1 .. (i - 1) : s[j] # id
  ELSE 0

splice(s, i) == SubSeq(s, 1, i - 1) \o SubSeq(s, i + 1, Len(s))

\* cancel() of the handle returned by push for task id.
cancelNoSplice(q, id) ==
  LET i == findIndex(q.queue, id)
  IN IF i > 0
     THEN [q |-> [q EXCEPT !.promise[id] = settle(q.promise[id], "cancelled")],
           ret |-> TRUE]
     ELSE [q |-> q, ret |-> FALSE]
cancelRejectsAlways(q, id) ==
  LET i == findIndex(q.queue, id)
  IN IF i > 0
     THEN [q |-> [q EXCEPT !.queue = splice(q.queue, i),
                           !.promise[id] = settle(q.promise[id], "cancelled")],
           ret |-> TRUE]
     ELSE [q |-> [q EXCEPT !.promise[id] = settle(q.promise[id], "cancelled")],
           ret |-> FALSE]
cancel(q, id) ==
  LET i == findIndex(q.queue, id)
  IN IF i > 0
     THEN [q |-> [q EXCEPT !.queue = splice(q.queue, i),
                           !.promise[id] = settle(q.promise[id], "cancelled")],
           ret |-> TRUE]
     ELSE [q |-> q, ret |-> FALSE]

InQueue(s, id) == \E i \in 1 .. Len(s) : s[i] = id

clearPendingResetsRunning(q) ==
  [q EXCEPT !.promise = [t \in TaskIds |->
                           IF InQueue(q.queue, t)
                           THEN settle(q.promise[t], "cleared")
                           ELSE q.promise[t]],
            !.queue = <<>>,
            !.running = 0]
clearPending(q) ==
  [q EXCEPT !.promise = [t \in TaskIds |->
                           IF InQueue(q.queue, t)
                           THEN settle(q.promise[t], "cleared")
                           ELSE q.promise[t]],
            !.queue = <<>>]

\* ------------------------------------------------ videoAnalysisService
\* The module state as one record.
V == [worker |-> worker, workersCreated |-> workersCreated,
      runningTasks |-> runningTasks, vtask |-> vtask, nextVTask |-> nextVTask,
      calls |-> calls]

SetV(v) ==
  /\ worker' = v.worker
  /\ workersCreated' = v.workersCreated
  /\ runningTasks' = v.runningTasks
  /\ vtask' = v.vtask
  /\ nextVTask' = v.nextVTask
  /\ calls' = v.calls

InitV(v) ==
  /\ worker = v.worker
  /\ workersCreated = v.workersCreated
  /\ runningTasks = v.runningTasks
  /\ vtask = v.vtask
  /\ nextVTask = v.nextVTask
  /\ calls = v.calls

\* A RunningTask that does not exist yet.
NoVTask == [file |-> 0, promise |-> "none", timer |-> "none", phase |-> "none",
            gen |-> 0, extractions |-> 0, posts |-> 0]

\* Module state after import: no worker, empty map.
videoModule ==
  [worker |-> 0, workersCreated |-> 0,
   runningTasks |-> [f \in FileIds |-> 0],
   vtask |-> [t \in VTaskIds |-> NoVTask],
   nextVTask |-> 0,
   calls |-> <<>>]

\* createWorkerInstance(): reuse the worker or construct a new one.
createWorkerInstance(v) ==
  IF v.worker # 0 THEN v
  ELSE [v EXCEPT !.worker = v.workersCreated + 1,
                 !.workersCreated = v.workersCreated + 1]

\* task.reject(reason) / task.resolve(value) on RunningTask t.
settleV(v, t, outcome) ==
  [v EXCEPT !.vtask[t].promise = settle(v.vtask[t].promise, outcome)]

\* if (task.timeoutId) clearTimeout(task.timeoutId)
clearTimeout(v, t) ==
  [v EXCEPT !.vtask[t].timer =
     IF v.vtask[t].timer = "armed" THEN "cleared" ELSE v.vtask[t].timer]

\* runningTasks.get(fileId)
getNever(v, f) == 0
get(v, f) == v.runningTasks[f]

\* runningTasks.delete(fileId)
delete(v, f) == [v EXCEPT !.runningTasks[f] = 0]

\* analyzeVideoContent(file): f is the identity name-lastModified-size of the
\* file. The call either returns the registered promise or registers a new
\* RunningTask, arms its timeout and starts the frame extraction.
analyzeVideoContent(v, f) ==
  LET existing == get(v, f)
      found == v.runningTasks[f]
  IN IF existing # 0
     THEN [v EXCEPT !.calls = Append(v.calls,
                      [file |-> f, task |-> existing, found |-> found])]
     ELSE LET v1 == createWorkerInstance(v)
              t == v.nextVTask + 1
          IN [v1 EXCEPT
                !.nextVTask = t,
                !.vtask[t] = [file |-> f, promise |-> "pending",
                              timer |-> "armed", phase |-> "extracting",
                              gen |-> v1.worker, extractions |-> 1,
                              posts |-> 0],
                !.runningTasks[f] = t,
                !.calls = Append(v.calls,
                            [file |-> f, task |-> t, found |-> found])]

\* The timeout callback of RunningTask t.
timeoutCallback(v, t) ==
  delete(settleV([v EXCEPT !.vtask[t].timer = "fired"], t, "timeout"),
         v.vtask[t].file)

\* The frame extraction of RunningTask t succeeded: postMessage to the worker
\* instance captured by the call.
postFrames(v, t) ==
  [v EXCEPT !.vtask[t].phase = "posted",
            !.vtask[t].posts = v.vtask[t].posts + 1]

\* The catch block of the extraction of RunningTask t.
extractionCatch(v, t) ==
  settleV(delete(clearTimeout([v EXCEPT !.vtask[t].phase = "failed"], t),
                 v.vtask[t].file),
          t, "extractError")

\* worker.onmessage for the response to the job of RunningTask t.
onmessage(v, t, success) ==
  LET fileId == v.vtask[t].file
      task == get(v, fileId)
      v0 == [v EXCEPT !.vtask[t].phase = "replied"]
  IN IF task = 0 THEN v0
     ELSE delete(settleV(clearTimeout(v0, task), task,
                         IF success THEN "resolved" ELSE "workerError"),
                 fileId)

RECURSIVE rejectAll(_, _, _)
\* runningTasks.forEach(task => { clearTimeout; task.reject(reason) })
rejectAll(v, fs, reason) ==
  IF fs = {} THEN v
  ELSE LET f == CHOOSE x \in fs : \A y \in fs : x <= y
           t == v.runningTasks[f]
       IN rejectAll(IF t = 0 THEN v ELSE settleV(clearTimeout(v, t), t, reason),
                    fs \ {f}, reason)

\* runningTasks.clear()
clear(v) == [v EXCEPT !.runningTasks = [f \in FileIds |-> 0]]

\* worker.onerror ("crashed") and worker.onmessageerror ("messageError").
onerror(v, reason) ==
  [clear(rejectAll(v, FileIds, reason)) EXCEPT !.worker = 0]

\* terminateWorker()
terminateWorker(v) ==
  clear(rejectAll([v EXCEPT !.worker = 0], FileIds, "terminated"))

\* ------------------------------------------- SpecVideo: the service alone
Analyze(f) ==
  /\ AudioUnused
  /\ Len(calls) < MaxCalls
  /\ get(V, f) # 0 \/ (nextVTask < MaxVTasks /\ (worker # 0 \/ workersCreated < MaxWorkers))
  /\ SetV(analyzeVideoContent(V, f))
  /\ UNCHANGED exVideo

Timeout(t) ==
  /\ vtask[t].timer = "armed"
  /\ SetV(timeoutCallback(V, t))
  /\ UNCHANGED exVideo

ExtractDone(t) ==
  /\ vtask[t].phase = "extracting"
  /\ SetV(postFrames(V, t))
  /\ UNCHANGED exVideo

ExtractFail(t) ==
  /\ vtask[t].phase = "extracting"
  /\ SetV(extractionCatch(V, t))
  /\ UNCHANGED exVideo

\* The worker that received the job of RunningTask t answers it.
WorkerReply(t, success) ==
  /\ vtask[t].phase = "posted"
  /\ vtask[t].gen = worker
  /\ SetV(onmessage(V, t, success))
  /\ UNCHANGED exVideo

WorkerError(reason) ==
  /\ worker # 0
  /\ SetV(onerror(V, reason))
  /\ UNCHANGED exVideo

TerminateWorker ==
  /\ worker # 0 \/ \E f \in FileIds : runningTasks[f] # 0
  /\ SetV(terminateWorker(V))
  /\ UNCHANGED exVideo

NextVideo ==
  \/ \E f \in FileIds : Analyze(f)
  \/ \E t \in VTaskIds : Timeout(t)
  \/ \E t \in VTaskIds : ExtractDone(t)
  \/ \E t \in VTaskIds : ExtractFail(t)
  \/ \E t \in VTaskIds, success \in BOOLEAN : WorkerReply(t, success)
  \/ \E reason \in {"crashed", "messageError"} : WorkerError(reason)
  \/ TerminateWorker

\* ------------------------------------------ audioAnalysisWorkerService
\* The module state as one record.
AU == [worker |-> audioWorker, workersCreated |-> audioWorkersCreated,
       runningTasks |-> audioRunningTasks, nextTaskId |-> audioNextTaskId,
       task |-> audioTask]

SetAU(au) ==
  /\ audioWorker' = au.worker
  /\ audioWorkersCreated' = au.workersCreated
  /\ audioRunningTasks' = au.runningTasks
  /\ audioNextTaskId' = au.nextTaskId
  /\ audioTask' = au.task

InitAU(au) ==
  /\ audioWorker = au.worker
  /\ audioWorkersCreated = au.workersCreated
  /\ audioRunningTasks = au.runningTasks
  /\ audioNextTaskId = au.nextTaskId
  /\ audioTask = au.task

\* An analyzeAudio call that has not been made yet.
NoAudioTask == [promise |-> "none", phase |-> "none", gen |-> 0]

\* Module state after import: no worker, empty map, nextTaskId = 0.
audioModule ==
  [worker |-> 0, workersCreated |-> 0, runningTasks |-> {}, nextTaskId |-> 0,
   task |-> [id \in AudioIds |-> NoAudioTask]]

\* createWorker(): reuse the worker or construct a new one.
createWorker(au) ==
  IF au.worker # 0 THEN au
  ELSE [au EXCEPT !.worker = au.workersCreated + 1,
                  !.workersCreated = au.workersCreated + 1]

\* task.resolve(analysis) / task.reject(new Error(...)) of task id.
settleAudio(au, id, outcome) ==
  [au EXCEPT !.task[id].promise = settle(au.task[id].promise, outcome)]

RECURSIVE audioRejectAll(_, _, _)
\* runningTasks.forEach((task, id) => { task.reject(reason);
\*                                      runningTasks.delete(id) })
audioRejectAll(au, ids, reason) ==
  IF ids = {} THEN au
  ELSE LET id == CHOOSE x \in ids : \A y \in ids : x <= y
       IN audioRejectAll(
            [settleAudio(au, id, reason)
               EXCEPT !.runningTasks = au.runningTasks \ {id}],
            ids \ {id}, reason)

\* terminateWorker() of the audio service.
audioTerminateKeepsTasks(au) ==
  IF au.worker = 0 THEN au ELSE [au EXCEPT !.worker = 0]
audioTerminateWorker(au) ==
  IF au.worker = 0 THEN au
  ELSE audioRejectAll([au EXCEPT !.worker = 0], au.runningTasks, "terminated")

\* worker.onerror of the audio worker.
audioOnerror(au) ==
  audioTerminateWorker(audioRejectAll(au, au.runningTasks, "crashed"))

\* worker.onmessage of the audio worker for the response to the job of id.
audioOnmessage(au, id, success) ==
  LET au0 == [au EXCEPT !.task[id].phase = "replied"]
  IN IF id \in au.runningTasks
     THEN [settleAudio(au0, id, IF success THEN "resolved" ELSE "workerError")
             EXCEPT !.runningTasks = au.runningTasks \ {id}]
     ELSE au0

\* analyzeAudio(file): registers task-<nextTaskId> and posts the file to the
\* worker. No timer is armed.
analyzeAudio(au) ==
  LET au1 == createWorker(au)
      id == au.nextTaskId
  IN [au1 EXCEPT !.nextTaskId = id + 1,
                 !.runningTasks = au1.runningTasks \cup {id},
                 !.task[id] = [promise |-> "pending", phase |-> "posted",
                               gen |-> au1.worker]]

AnalyzeAudio ==
  /\ VideoUnused
  /\ audioNextTaskId < MaxATasks
  /\ audioWorker # 0 \/ audioWorkersCreated < MaxAWorkers
  /\ SetAU(analyzeAudio(AU))
  /\ UNCHANGED exAudio

\* self.onmessage of the worker script: the message of task id, the oldest
\* one not yet delivered to this worker, is delivered; the handler calls
\* performAnalysis(file), which suspends at its first await.
SelfOnmessage(id) ==
  /\ audioTask[id].phase = "posted"
  /\ audioTask[id].gen = audioWorker
  /\ \A e \in AudioIds :
       (e < id /\ audioTask[e].gen = audioWorker) => audioTask[e].phase # "posted"
  /\ SetAU([AU EXCEPT !.task[id].phase = "analyzing"])
  /\ UNCHANGED exAudio

\* performAnalysis of task id ends, the worker posts the result or the error,
\* and worker.onmessage of the main thread receives it.
AudioReply(id, success) ==
  /\ audioTask[id].phase = "analyzing"
  /\ audioTask[id].gen = audioWorker
  /\ SetAU(audioOnmessage(AU, id, success))
  /\ UNCHANGED exAudio

AudioError ==
  /\ audioWorker # 0
  /\ SetAU(audioOnerror(AU))
  /\ UNCHANGED exAudio

TerminateAudio ==
  /\ audioWorker # 0
  /\ SetAU(audioTerminateWorker(AU))
  /\ UNCHANGED exAudio

NextAudio ==
  \/ AnalyzeAudio
  \/ \E id \in AudioIds : SelfOnmessage(id)
  \/ \E id \in AudioIds, success \in BOOLEAN : AudioReply(id, success)
  \/ AudioError
  \/ TerminateAudio

\* ------------------------------------------------------- analyzeEnergy
\* A quotient a / b of the code, kept exact as the pair (a, b), b > 0.
Quot(a, b) == [num |-> a, den |-> b]
QuotEq(x, y) == x.num * y.den = y.num * x.den
QuotLt(x, y) == x.num * y.den < y.num * x.den
QuotLeq(x, y) == x.num * y.den <= y.num * x.den

RECURSIVE sumOfSquares(_, _, _)
\* for (j ...) sumOfSquares += segment[j] * segment[j], over data[i .. end-1]
\* (0-based offsets into the 1-based sequence).
sumOfSquares(data, i, end) ==
  IF i >= end THEN 0
  ELSE data[i + 1] * data[i + 1] + sumOfSquares(data, i + 1, end)

\* rms = Math.sqrt(sumOfSquares / segment.length): kept as the mean square,
\* which orders the windows as their square roots do.

RECURSIVE windows(_, _, _)
\* The first loop: one window per samplesPerSegment samples from offset i,
\* with its startTime, endTime and energy.
windows(data, sampleRate, i) ==
  IF i >= Len(data) THEN <<>>
  ELSE LET segmentEnd == MathMin(i + sampleRate, Len(data))
       IN <<[startTime |-> Quot(i, sampleRate),
             endTime |-> Quot(segmentEnd, sampleRate),
             energy |-> Quot(sumOfSquares(data, i, segmentEnd), segmentEnd - i)]>>
          \o windows(data, sampleRate, i + sampleRate)

\* sortedEnergy[k] for sortedEnergy = [...energyLevels].sort((a, b) => a - b)
sortedEnergy(ws, k) ==
  LET below(e) == Cardinality({i \in 1 .. Len(ws) : QuotLt(ws[i].energy, e)})
      upto(e) == Cardinality({i \in 1 .. Len(ws) : QuotLeq(ws[i].energy, e)})
      j == CHOOSE i \in 1 .. Len(ws) :
             below(ws[i].energy) <= k /\ k < upto(ws[i].energy)
  IN ws[j].energy

\* The intensity of a window given the two thresholds.
classify(energy, lowThreshold, highThreshold) ==
  IF QuotLeq(highThreshold, energy) THEN "high"
  ELSE IF QuotLeq(lowThreshold, energy) THEN "medium"
  ELSE "low"

RECURSIVE mergeSegmentsDropsLast(_, _, _)
mergeSegmentsDropsLast(cs, i, currentSegment) ==
  IF i > Len(cs) THEN <<>>
  ELSE IF cs[i].intensity = currentSegment.intensity
       THEN mergeSegmentsDropsLast(cs, i + 1,
              [currentSegment EXCEPT !.endTime = cs[i].endTime])
       ELSE <<currentSegment>> \o mergeSegmentsDropsLast(cs, i + 1, cs[i])

RECURSIVE mergeSegments(_, _, _)
\* The merge loop from classifiedSegments[i] on, then the final push.
mergeSegments(cs, i, currentSegment) ==
  IF i > Len(cs) THEN <<currentSegment>>
  ELSE IF cs[i].intensity = currentSegment.intensity
       THEN mergeSegments(cs, i + 1,
              [currentSegment EXCEPT !.endTime = cs[i].endTime])
       ELSE <<currentSegment>> \o mergeSegments(cs, i + 1, cs[i])

\* analyzeEnergy(buffer)
analyzeEnergy(b) ==
  LET ws == windows(b.data, b.sampleRate, 0)
  IN IF Len(ws) = 0 THEN <<>>
     ELSE LET lowThreshold == sortedEnergy(ws, (Len(ws) * 33) \div 100)
              highThreshold == sortedEnergy(ws, (Len(ws) * 66) \div 100)
              classifiedSegments ==
                [i \in 1 .. Len(ws) |->
                   [startTime |-> ws[i].startTime, endTime |-> ws[i].endTime,
                    intensity |-> classify(ws[i].energy, lowThreshold,
                                           highThreshold)]]
          IN mergeSegments(classifiedSegments, 2, classifiedSegments[1])

\* -------------------------------------------------------- analyzeBeats
\* Steps 5 and 6 of analyzeBeats: peak picking on the combined ODF and the
\* tempo estimate. The combined ODF (steps 1 to 4, rendered by
\* OfflineAudioContext) is the input, in units of 0.01.
hopLength == 256

RECURSIVE GCD(_, _)
GCD(a, b) == IF b = 0 THEN a ELSE GCD(b, a % b)

\* The quotient a / b in lowest terms (a >= 0, b > 0).
Reduced(a, b) == Quot(a \div GCD(a, b), b \div GCD(a, b))

RECURSIVE localSum(_, _, _)
\* for (j = windowStart; j < windowEnd; j++) localSum += combinedOdf[j]
localSum(odf, j, windowEnd) ==
  IF j >= windowEnd THEN 0 ELSE odf[j + 1] + localSum(odf, j + 1, windowEnd)

\* Whether frame i (0-based) is pushed to peaks: a strict local maximum above
\* localAverage * 1.2 + 0.01, the average taken over the window around i.
isPeak(odf, i, peakThresholdWindow) ==
  /\ odf[i + 1] > odf[i] /\ odf[i + 1] > odf[i + 2]
  /\ LET windowStart == MathMax(0, i - peakThresholdWindow)
         windowEnd == MathMin(Len(odf), i + peakThresholdWindow)
         n == windowEnd - windowStart
     IN /\ n > 0
        /\ 10 * n * odf[i + 1] > 12 * localSum(odf, windowStart, windowEnd) + 10 * n

RECURSIVE pickPeaks(_, _, _)
\* for (i = 1; i < combinedOdf.length - 1; i++): the indices pushed to peaks.
pickPeaks(odf, i, peakThresholdWindow) ==
  IF i >= Len(odf) - 1 THEN <<>>
  ELSE (IF isPeak(odf, i, peakThresholdWindow) THEN <<i>> ELSE <<>>)
       \o pickPeaks(odf, i + 1, peakThresholdWindow)

\* tempoBins[tempo] = { count: 1, tempos: [tempo] }: the position of the new
\* key in the enumeration order of the object. Keys that are integer indices
\* are enumerated first, in ascending order, by Object.keys and Object.values.
insertBin(bins, tempo) ==
  LET new == [key |-> tempo, count |-> 1, sum |-> tempo]
  IN IF tempo.den # 1 THEN Append(bins, new)
     ELSE LET before == Cardinality({k \in 1 .. Len(bins) :
                           bins[k].key.den = 1 /\ bins[k].key.num < tempo.num})
          IN SubSeq(bins, 1, before) \o <<new>> \o SubSeq(bins, before + 1, Len(bins))

\* Object.keys(tempoBins).find(key => tempo > binTempo * 0.95 &&
\*                                    tempo < binTempo * 1.05): 0 if none.
findBin(bins, tempo) ==
  LET match(k) ==
        /\ tempo.num * bins[k].key.den * 100 > 95 * bins[k].key.num * tempo.den
        /\ tempo.num * bins[k].key.den * 100 < 105 * bins[k].key.num * tempo.den
      hits == {k \in 1 .. Len(bins) : match(k)}
  IN IF hits = {} THEN 0 ELSE CHOOSE k \in hits : \A h \in hits : k <= h

RECURSIVE tempoBins(_, _, _, _)
\* iois.forEach(...): the bins after the intervals from peaks[i] on, the
\* interval between consecutive peaks being (delta * hopLength) / sampleRate.
tempoBins(peaks, i, sampleRate, bins) ==
  IF i > Len(peaks) THEN bins
  ELSE LET delta == peaks[i] - peaks[i - 1]
       IN IF ~(delta * hopLength * 10 > sampleRate)
          THEN tempoBins(peaks, i + 1, sampleRate, bins)
          ELSE LET tempo == Reduced(60 * sampleRate, delta * hopLength)
                   bin == findBin(bins, tempo)
               IN tempoBins(peaks, i + 1, sampleRate,
                    IF bin # 0
                    THEN [bins EXCEPT ![bin].count = @ + 1,
                                      ![bin].sum = Reduced(@.num * tempo.den + tempo.num * @.den,
                                                           @.den * tempo.den)]
                    ELSE insertBin(bins, tempo))

RECURSIVE dominantBin(_, _, _)
\* Object.values(tempoBins).reduce((a, b) => a.count > b.count ? a : b)
dominantBin(bins, i, a) ==
  IF i > Len(bins) THEN a
  ELSE dominantBin(bins, i + 1, IF a.count > bins[i].count THEN a ELSE bins[i])

RECURSIVE double(_)
\* while (bpm < 70) bpm *= 2
double(bpm) ==
  IF QuotLt(bpm, Quot(70, 1)) THEN double(Quot(bpm.num * 2, bpm.den)) ELSE bpm

halveOnce(bpm) ==
  IF QuotLt(Quot(180, 1), bpm) THEN Quot(bpm.num, bpm.den * 2) ELSE bpm
RECURSIVE halve(_)
\* while (bpm > 180) bpm /= 2
halve(bpm) ==
  IF QuotLt(Quot(180, 1), bpm) THEN halve(Quot(bpm.num, bpm.den * 2)) ELSE bpm

\* if (peaks.length < 4): not enough peaks to determine a tempo.
tooFewPeaksThree(peaks) == Len(peaks) < 3
tooFewPeaks(peaks) == Len(peaks) < 4

\* const beats = peaks.map(p => ({timestamp: p.timestamp, confidence: 1.0})),
\* the timestamp of the peak at index i being (i * hopLength) / sampleRate.
beatsButLast(peaks, sampleRate) ==
  [k \in 1 .. (Len(peaks) - 1) |->
     [timestamp |-> Reduced(peaks[k] * hopLength, sampleRate), confidence |-> 1]]
beats(peaks, sampleRate) ==
  [k \in 1 .. Len(peaks) |->
     [timestamp |-> Reduced(peaks[k] * hopLength, sampleRate), confidence |-> 1]]

\* analyzeBeats from the combined ODF on: what the promise resolves with. The
\* bpm is Math.round of the corrected average.
analyzeBeats(in) ==
  LET peaks == pickPeaks(in.odf, 1, in.sampleRate \div (hopLength * 2))
  IN IF tooFewPeaks(peaks) THEN [bpm |-> 120, beats |-> <<>>]
     ELSE LET bins == tempoBins(peaks, 2, in.sampleRate, <<>>)
          IN IF Len(bins) = 0 THEN [bpm |-> 120, beats |-> <<>>]
             ELSE LET dominant == dominantBin(bins, 2, bins[1])
                      bpm == Quot(dominant.sum.num,
                                  dominant.sum.den * dominant.count)
                  IN [bpm |-> LET x == halve(double(bpm))
                               IN (2 * x.num + x.den) \div (2 * x.den),
                      beats |-> beats(peaks, in.sampleRate)]

\* ------------------------------------------------- video frame heuristics
\* The repository holds two copies of the video analysis service, the one in
\* services/videoExportService.ts and the one in part_005: rev names the copy.

\* A frame is the sequence of its RGBA pixels; ImageData.data holds 4 bytes
\* for each of them.
PixelValues == {<<0, 0, 0, 255>>, <<31, 31, 31, 255>>, <<255, 255, 255, 255>>}

\* Math.abs
MathAbs(x) == IF x < 0 THEN -x ELSE x

RECURSIVE diff(_, _, _)
\* for (i = 0; i < data1.length; i += 4) diff += |r1 - r2| + |g1 - g2| + |b1 - b2|
diff(frame1, frame2, k) ==
  IF k > Len(frame1) THEN 0
  ELSE MathAbs(frame1[k][1] - frame2[k][1]) + MathAbs(frame1[k][2] - frame2[k][2])
       + MathAbs(frame1[k][3] - frame2[k][3]) + diff(frame1, frame2, k + 1)

\* The divisor of the motion score: data1.length * 3 * 255 in
\* videoExportService.ts, numPixels * 3 * 255 in part_005.
maxDiffDataLength(rev, frame1) == 4 * Len(frame1) * 3 * 255
maxDiff(rev, frame1) ==
  LET data1Length == 4 * Len(frame1)
  IN IF rev = "part_005" THEN (data1Length \div 4) * 3 * 255
     ELSE data1Length * 3 * 255

\* const motionScore = diff / maxDiff
motionScore(rev, frame1, frame2) ==
  Quot(diff(frame1, frame2, 1), maxDiff(rev, frame1))

calculateMotionFromImageData(rev, frame1, frame2) ==
  LET score == motionScore(rev, frame1, frame2)
  IN IF score.num * 10 > score.den THEN "high"
     ELSE IF score.num * 100 > 3 * score.den THEN "medium"
     ELSE IF score.num * 1000 > 5 * score.den THEN "low"
     ELSE "static"

\* The motion part of the worker's onmessage: the first and the last frame
\* are compared if there is more than one.
motionLevelCentral(rev, bitmaps) ==
  IF Len(bitmaps) > 1
  THEN calculateMotionFromImageData(rev, bitmaps[1], bitmaps[(Len(bitmaps) \div 2) + 1])
  ELSE "static"
motionLevel(rev, bitmaps) ==
  IF Len(bitmaps) > 1
  THEN calculateMotionFromImageData(rev, bitmaps[1], bitmaps[Len(bitmaps)])
  ELSE "static"

\* The worker's onmessage, as far as the motion level goes: the message it
\* posts back.
workerOnmessage(rev, bitmaps) ==
  IF Len(bitmaps) = 0
  THEN [revision |-> rev, success |-> FALSE, motionLevel |-> "none",
        error |-> "No frames provided to worker."]
  ELSE [revision |-> rev, success |-> TRUE,
        motionLevel |-> motionLevel(rev, bitmaps), error |-> "none"]

\* The frame times analyzeVideoContent chooses for a video of the given
\* duration (in hundredths of a second), in thousandths of a second.
frameTimes(duration) ==
  LET candidates == <<2 * duration, 5 * duration, 8 * duration>>
      keep(t) == t > 50 /\ t < 10 * duration - 50
      filtered == SelectSeq(candidates, keep)
  IN IF Len(filtered) = 0 THEN <<MathMin(200, 5 * duration)>> ELSE filtered

\* -------------------------------------------------- createVideoSequence
\* Clamp/repair logic for clipIndex (part_003).
clampIndex(n, maxExclusive) ==
  IF n < 0 THEN 0
  ELSE IF n >= maxExclusive THEN MathMax(0, maxExclusive - 1)
  ELSE n

\* createVideoSequence of the copy rev ("geminiService.ts" or "part_003")
\* from the model's response on: whether it throws, and the
\* editDecisionList it returns. An item of editDecisions has a clipIndex with
\* its typeof, a duration in seconds and a description; returned durations
\* are in hundredths of a second and a returned clipIndex of -1 stands for NaN.
createVideoSequence(call) ==
  LET n == call.clips
      items == call.response.editDecisions
      threw == [threw |-> TRUE, editDecisionList |-> <<>>]
      NaN == -1
      typed(item) == item.typeofClipIndex = "number" /\ item.duration > 0
      \* geminiService.ts: Math.abs(item.clipIndex) % clips.length
      repaired(item) ==
        [clipIndex |-> IF n = 0 THEN NaN
                       ELSE (IF item.clipIndex < 0 THEN -item.clipIndex
                             ELSE item.clipIndex) % n,
         duration |-> 100 * item.duration,
         description |-> item.description]
      \* part_003: clampIndex(rawIndex, clips.length)
      clamped(item) ==
        [clipIndex |-> clampIndex(item.clipIndex, n),
         duration |-> 100 * item.duration,
         description |-> item.description]
      keep(item) == typed(item) /\ item.description # ""
      kept == SelectSeq(items, keep)
      total == LET RECURSIVE sum(_)
                   sum(k) == IF k = 0 THEN 0 ELSE kept[k].duration + sum(k - 1)
               IN sum(Len(kept))
      \* normalizeDurations: Math.max(0.1, Math.round(d * scale * 100) / 100)
      normalized(d) ==
        IF call.audioDuration <= 0 THEN d
        ELSE [d EXCEPT !.duration =
                MathMax(10, (2 * (@ \div 100) * call.audioDuration * 100 + total)
                              \div (2 * total))]
  IN IF call.response.kind # "json" THEN threw
     ELSE IF call.revision = "geminiService.ts"
     THEN LET list == SelectSeq(items, typed)
          IN IF Len(list) = 0 THEN threw
             ELSE [threw |-> FALSE,
                   editDecisionList |-> [k \in 1 .. Len(list) |-> repaired(list[k])]]
     ELSE IF \E k \in 1 .. Len(items) : ~typed(items[k]) THEN threw
     ELSE IF Len(kept) = 0 THEN threw
     ELSE [threw |-> FALSE,
           editDecisionList |->
             [k \in 1 .. Len(kept) |-> normalized(clamped(kept[k]))]]

\* ------------------------------------------------------------------ App
\* The App state (with its AnalysisQueue) as one record.
A == [q |-> Q, clipLibrary |-> clipLibrary,
      cancellableTasks |-> cancellableTasks, db |-> db, taskClip |-> taskClip,
      phase |-> phase]

SetA(a) ==
  /\ SetQ(a.q)
  /\ clipLibrary' = a.clipLibrary
  /\ cancellableTasks' = a.cancellableTasks
  /\ db' = a.db
  /\ taskClip' = a.taskClip
  /\ phase' = a.phase

InitA(a) ==
  /\ clipLibrary = a.clipLibrary
  /\ cancellableTasks = a.cancellableTasks
  /\ db = a.db
  /\ taskClip = a.taskClip
  /\ phase = a.phase
  /\ batches = EmptyBag

NoClip == [status |-> "absent", error |-> "none"]
emptyStore == [c \in ClipIds |-> "absent"]

\* A record as dbService returns it: addClip is only called with a 'ready'
\* or an 'error' record.
stored(st) ==
  IF st = "absent" THEN NoClip
  ELSE [status |-> st, error |-> IF st = "error" THEN "analysis" ELSE "none"]

\* The App once loadData has finished: the library is the stored clips.
app(store) ==
  [q |-> constructor(2),
   clipLibrary |-> [c \in ClipIds |-> stored(store[c])],
   cancellableTasks |-> [c \in ClipIds |-> -1],
   db |-> store,
   taskClip |-> [t \in TaskIds |-> 0],
   phase |-> [t \in TaskIds |-> "none"]]

\* setClipLibrary(prev => prev.map(c => c.id === id ? rec : c))
mapClip(a, id, rec) ==
  IF a.clipLibrary[id].status = "absent" THEN a
  ELSE [a EXCEPT !.clipLibrary[id] = rec]

\* prevMap.set(m.id, m) with m the metadata of getClipMetadata ('pending').
mergeClip(a, id) ==
  [a EXCEPT !.clipLibrary[id] = [status |-> "pending", error |-> "none"]]

\* The first statement of the task closure, run by runTask when the task is
\* dispatched: { ...c, analysisStatus: 'analyzing' }, then await db.getClip.
taskStart(a, t) ==
  LET id == a.taskClip[t]
  IN [mapClip(a, id, [a.clipLibrary[id] EXCEPT !.status = "analyzing"])
        EXCEPT !.phase[t] = "getClip"]

RECURSIVE startDispatched(_, _)
\* Runs the closures of the tasks the queue started beyond the first n.
startDispatched(a, n) ==
  IF n >= Len(a.q.started) THEN a
  ELSE startDispatched(taskStart(a, a.q.started[n + 1]), n + 1)

\* analysisQueue.push(closure) for clip id, then
\* setCancellableTasks(prev => new Map(prev).set(metadata.id, cancel)).
pushClip(a, id) ==
  LET t == a.q.nextTaskId
      a1 == [a EXCEPT !.taskClip[t] = id, !.phase[t] = "queued"]
      a2 == startDispatched([a1 EXCEPT !.q = push(a1.q, "async")],
                            Len(a.q.started))
  IN [a2 EXCEPT !.cancellableTasks[id] = t]

Min(S) == CHOOSE x \in S : \A y \in S : x <= y

RECURSIVE mergeAll(_, _)
mergeAll(a, ids) ==
  IF ids = {} THEN a
  ELSE mergeAll(mergeClip(a, Min(ids)), ids \ {Min(ids)})

RECURSIVE pushAll(_, _)
pushAll(a, ids) ==
  IF ids = {} THEN a
  ELSE pushAll(pushClip(a, Min(ids)), ids \ {Min(ids)})

\* handleClipsAdded, first part: the files that are new or failed before.
filesToAnalyzeAll(lib, newFiles) == newFiles
filesToAnalyze(lib, newFiles) ==
  {f \in newFiles : lib[f].status = "absent" \/ lib[f].status = "error"}

\* handleClipsAdded, after getClipMetadata resolved for every file.
clipsAddedResume(a, ids) == pushAll(mergeAll(a, ids), ids)

\* The finally block of the task closure followed by the resumption of
\* runTask in the queue (ok: the closure returned, ~ok: it threw). The
\* closure has then run to its end and the metadata it captured is dropped.
taskFinally(a, t, ok) ==
  LET a1 == [a EXCEPT !.cancellableTasks[a.taskClip[t]] = -1,
                      !.phase[t] = "done", !.taskClip[t] = 0]
  IN startDispatched([a1 EXCEPT !.q = resumeRunTask(a1.q, t, ok)],
                     Len(a.q.started))

\* The catch block of the task closure up to await db.addClip(errored).
taskCatch(a, t) ==
  [mapClip(a, a.taskClip[t], [status |-> "error", error |-> "analysis"])
     EXCEPT !.phase[t] = "saveError"]

\* await db.getClip(metadata.id) settled.
afterGetClip(a, t, ok) ==
  LET id == a.taskClip[t]
  IN IF ~ok THEN taskCatch(a, t)
     ELSE IF a.db[id] = "ready"
          THEN taskFinally(mapClip(a, id, stored("ready")), t, TRUE)
          ELSE [a EXCEPT !.phase[t] = "analyze"]

\* await analyzeVideoContent(metadata.file) settled.
afterAnalyze(a, t, ok) ==
  IF ~ok THEN taskCatch(a, t)
  ELSE [mapClip(a, a.taskClip[t], [status |-> "ready", error |-> "none"])
          EXCEPT !.phase[t] = "saveReady"]

\* await db.addClip(...) settled, in the try block or in the catch block.
afterAddClip(a, t, ok) ==
  LET id == a.taskClip[t]
  IN IF a.phase[t] = "saveReady"
     THEN IF ok THEN taskFinally([a EXCEPT !.db[id] = "ready"], t, TRUE)
          ELSE taskCatch(a, t)
     ELSE IF ok THEN taskFinally([a EXCEPT !.db[id] = "error"], t, TRUE)
          ELSE taskFinally(a, t, FALSE)

\* handleCancelAnalysis(clipId)
handleCancelIgnoresResult(a, id) ==
  LET t == a.cancellableTasks[id]
      r == IF t = -1 THEN [q |-> a.q, ret |-> FALSE] ELSE cancel(a.q, t)
  IN IF t # -1
     THEN [a |-> [mapClip([a EXCEPT !.q = r.q], id,
                          [status |-> "error", error |-> "cancelled"])
                    EXCEPT !.cancellableTasks[id] = -1],
           ret |-> r.ret]
     ELSE [a |-> [a EXCEPT !.q = r.q], ret |-> FALSE]
handleCancelAnalysis(a, id) ==
  LET t == a.cancellableTasks[id]
      r == IF t = -1 THEN [q |-> a.q, ret |-> FALSE] ELSE cancel(a.q, t)
  IN IF t # -1 /\ r.ret
     THEN [a |-> [mapClip([a EXCEPT !.q = r.q], id,
                          [status |-> "error", error |-> "cancelled"])
                    EXCEPT !.cancellableTasks[id] = -1],
           ret |-> TRUE]
     ELSE [a |-> [a EXCEPT !.q = r.q], ret |-> FALSE]

\* handleRetryAnalysis(clipId): whether handleClipsAdded is called.
retryAlways(lib, id) == TRUE
retryAllowed(lib, id) == lib[id].status = "error"

\* ----------------------------------------------------- SpecApp: the App
\* The mounted App after loadData, with a fresh clip store. The error banner,
\* view and step are display state that no modelled handler reads.
InitApp ==
  /\ InitQ(app(emptyStore).q)
  /\ InitA(app(emptyStore))
  /\ InitV(videoModule)
  /\ InitAU(audioModule)
  /\ InitPure
  /\ lastOp = NoOp

\* Number of files of the invocations in flight: each will be pushed as a task.
RECURSIVE BatchFiles(_)
BatchFiles(bs) ==
  IF bs = {} THEN 0
  ELSE LET b == CHOOSE x \in bs : TRUE
       IN batches[b] * Cardinality(b.files) + BatchFiles(bs \ {b})

\* handleClipsAdded(newFiles) up to await Promise.all(getClipMetadata).
startClipsAdded(newFiles, by) ==
  LET ids == filesToAnalyze(clipLibrary, newFiles)
  IN IF ids = {}
     THEN UNCHANGED batches
     ELSE /\ BagCardinality(batches) < MaxBatches
          /\ nextTaskId + BatchFiles(BagToSet(batches)) + Cardinality(ids)
               <= MaxAppTasks
          /\ MaxAppTasks <= MaxTasks
          /\ batches' = batches (+) SetToBag({[files |-> ids, by |-> by]})

\* The user drops or selects files in VideoUpload or ClipLibraryView.
ClipsAdded(newFiles) ==
  /\ startClipsAdded(newFiles, "add")
  /\ SetA(A)
  /\ UNCHANGED lastOp
  /\ UNCHANGED exApp

\* The user presses retry on a clip.
RetryAnalysis(id) ==
  /\ IF retryAllowed(clipLibrary, id)
     THEN startClipsAdded({id}, "retry")
     ELSE UNCHANGED batches
  /\ SetA(A)
  /\ UNCHANGED lastOp
  /\ UNCHANGED exApp

\* getClipMetadata settled for every file of an invocation in flight.
MetadataDone(files, by, ok) ==
  /\ BagIn([files |-> files, by |-> by], batches)
  /\ batches' = batches (-) SetToBag({[files |-> files, by |-> by]})
  /\ SetA(IF ok THEN clipsAddedResume(A, files) ELSE A)
  /\ UNCHANGED lastOp
  /\ UNCHANGED exApp

\* The user presses cancel on a clip.
CancelAnalysis(id) ==
  /\ LET r == handleCancelAnalysis(A, id)
     IN /\ SetA(r.a)
        /\ UNCHANGED lastOp
  /\ UNCHANGED batches
  /\ UNCHANGED exApp

GetClipDone(t, ok) ==
  /\ phase[t] = "getClip"
  /\ SetA(afterGetClip(A, t, ok))
  /\ UNCHANGED lastOp
  /\ UNCHANGED batches
  /\ UNCHANGED exApp

AnalyzeDone(t, ok) ==
  /\ phase[t] = "analyze"
  /\ SetA(afterAnalyze(A, t, ok))
  /\ UNCHANGED lastOp
  /\ UNCHANGED batches
  /\ UNCHANGED exApp

AddClipDone(t, ok) ==
  /\ phase[t] \in {"saveReady", "saveError"}
  /\ SetA(afterAddClip(A, t, ok))
  /\ UNCHANGED lastOp
  /\ UNCHANGED batches
  /\ UNCHANGED exApp

NextApp ==
  \/ \E newFiles \in (SUBSET ClipIds) \ {{}} : ClipsAdded(newFiles)
  \/ \E id \in ClipIds : RetryAnalysis(id)
  \/ \E files \in (SUBSET ClipIds) \ {{}}, by \in {"add", "retry"}, ok \in BOOLEAN :
       MetadataDone(files, by, ok)
  \/ \E id \in ClipIds : CancelAnalysis(id)
  \/ \E t \in TaskIds, ok \in BOOLEAN : GetClipDone(t, ok)
  \/ \E t \in TaskIds, ok \in BOOLEAN : AnalyzeDone(t, ok)
  \/ \E t \in TaskIds, ok \in BOOLEAN : AddClipDone(t, ok)

\* ------------------------------------------------- SpecQueue: the queue alone
InitQueue ==
  /\ \E arg \in 0 .. MaxConcurrentArg : InitQ(constructor(arg))
  /\ lastOp = NoOp
  /\ InitV(videoModule)
  /\ InitAU(audioModule)
  /\ InitPure
  /\ InitA(app(emptyStore))

\* A caller pushes a task; fn says whether its taskFn returns a promise that
\* settles later ("async") or throws when called ("throws").
Push(fn) ==
  /\ nextTaskId < MaxTasks
  /\ SetQ(push(Q, fn))
  /\ lastOp' = [op |-> "push", id |-> nextTaskId, ret |-> FALSE]
  /\ UNCHANGED exQueue

\* The promise returned by the taskFn of a running task settles.
Settle(id, ok) ==
  /\ work[id] = "running"
  /\ SetQ(resumeRunTask(Q, id, ok))
  /\ lastOp' = [op |-> "settle", id |-> id, ret |-> ok]
  /\ UNCHANGED exQueue

\* A holder of the handle of task id calls cancel().
Cancel(id) ==
  /\ id < nextTaskId
  /\ LET r == cancel(Q, id)
     IN /\ SetQ(r.q)
        /\ lastOp' = [op |-> "cancel", id |-> id, ret |-> r.ret]
  /\ UNCHANGED exQueue

ClearPending ==
  /\ SetQ(clearPending(Q))
  /\ lastOp' = [op |-> "clearPending", id |-> -1, ret |-> FALSE]
  /\ UNCHANGED exQueue

NextQueue ==
  \/ \E fn \in {"async", "throws"} : Push(fn)
  \/ \E id \in TaskIds, ok \in BOOLEAN : Settle(id, ok)
  \/ \E id \in TaskIds : Cancel(id)
  \/ ClearPending

vars == <<qvars, vvars, auvars, avars, pvars, gvars>>

\* The video service alone: the App and its queue stay as constructed.
InitVideo ==
  /\ InitV(videoModule)
  /\ InitAU(audioModule)
  /\ InitPure
  /\ InitQ(constructor(2))
  /\ InitA(app(emptyStore))
  /\ lastOp = NoOp

SpecQueue == InitQueue /\ [][NextQueue]_vars

\* Every running task eventually finishes: the promise of its taskFn settles,
\* which is the one step that ends work[id] = "running". At most MaxFairTasks
\* tasks are pushed.
SpecQueueFair ==
  /\ InitQueue
  /\ [][NextQueue /\ nextTaskId' <= MaxFairTasks]_vars
  /\ \A id \in 0 .. (MaxFairTasks - 1) :
       WF_work(/\ work[id] = "running"
               /\ work' \in [TaskIds -> {"none", "idle", "running", "returned",
                                         "threw"}]
               /\ work'[id] \in {"returned", "threw"})

SpecVideo == InitVideo /\ [][NextVideo]_vars

SpecApp == InitApp /\ [][NextApp]_vars

\* The two media services: worker sessions of either kind.
NextMedia == NextVideo \/ NextAudio

SpecMedia == InitVideo /\ [][NextMedia]_vars

\* Timers of the event loop fire: an armed timeout is eventually delivered.
\* Nothing obliges a worker to answer.
SpecMediaFair ==
  SpecMedia /\ \A t \in VTaskIds : WF_vars(Timeout(t))

\* ---------------------------------- SpecEnergy: analyzeEnergy on a buffer
InitEnergy ==
  /\ InitGlue
  /\ \E sampleRate \in {1, 2, 3}, n \in 1 .. MaxSamples :
       \E data \in [1 .. n -> {-2, 0, 1}] :
         buffer = [sampleRate |-> sampleRate, data |-> data]
  /\ energySegments = NotReturned
  /\ combinedOdf = NoInput
  /\ beatAnalysis = NotReturned
  /\ sampled = NoInput
  /\ frameAnalysis = NotReturned
  /\ InitQ(constructor(2))
  /\ lastOp = NoOp
  /\ InitV(videoModule)
  /\ InitAU(audioModule)
  /\ InitA(app(emptyStore))

\* The worker runs analyzeEnergy on the decoded buffer.
AnalyzeEnergy ==
  /\ ~energySegments.returned
  /\ energySegments' = [returned |-> TRUE, value |-> analyzeEnergy(buffer)]
  /\ UNCHANGED <<buffer, combinedOdf, beatAnalysis, sampled, frameAnalysis,
               exPure>>

SpecEnergy == InitEnergy /\ [][AnalyzeEnergy]_vars

\* ------------------------------- SpecBeats: analyzeBeats on a combined ODF
InitBeats ==
  /\ InitGlue
  /\ \E sampleRate \in {512, 3000, 6000}, n \in 0 .. (MaxOdf - 1) :
       \E odf \in [1 .. n -> {0, 3, 8}] :
         combinedOdf = [sampleRate |-> sampleRate, odf |-> <<0>> \o odf]
  /\ beatAnalysis = NotReturned
  /\ sampled = NoInput
  /\ frameAnalysis = NotReturned
  /\ buffer = NoInput
  /\ energySegments = NotReturned
  /\ InitQ(constructor(2))
  /\ lastOp = NoOp
  /\ InitV(videoModule)
  /\ InitAU(audioModule)
  /\ InitA(app(emptyStore))

\* The worker runs the peak picking and the tempo estimate.
AnalyzeBeats ==
  /\ ~beatAnalysis.returned
  /\ beatAnalysis' = [returned |-> TRUE, value |-> analyzeBeats(combinedOdf)]
  /\ UNCHANGED <<combinedOdf, buffer, energySegments, sampled, frameAnalysis,
               exPure>>

SpecBeats == InitBeats /\ [][AnalyzeBeats]_vars

\* ------------------------------------------ SpecClient: geminiClient.ts
\* getGenAI(): the cached instance if there is one; otherwise it throws if
\* API_KEY is not set (or empty) and constructs and caches an instance if it is.
GetGenAINoCache ==
  /\ apiKey \notin {"unset", ""}
  /\ constructed < MaxInstances
  /\ constructed' = constructed + 1
  /\ ai' = constructed + 1
  /\ getResult' = [returned |-> TRUE,
                   value |-> [threw |-> FALSE, instance |-> constructed + 1]]
  /\ UNCHANGED <<apiKey, sequenceCall, sequenceResult, upload, submit, exGlue>>
GetGenAI ==
  /\ IF ai # 0
     THEN /\ getResult' = [returned |-> TRUE,
                           value |-> [threw |-> FALSE, instance |-> ai]]
          /\ UNCHANGED <<ai, constructed>>
     ELSE IF apiKey \in {"unset", ""}
     THEN /\ getResult' = [returned |-> TRUE,
                           value |-> [threw |-> TRUE, instance |-> 0]]
          /\ UNCHANGED <<ai, constructed>>
     ELSE /\ constructed < MaxInstances
          /\ constructed' = constructed + 1
          /\ ai' = constructed + 1
          /\ getResult' = [returned |-> TRUE,
                           value |-> [threw |-> FALSE, instance |-> constructed + 1]]
  /\ UNCHANGED <<apiKey, sequenceCall, sequenceResult, upload, submit, exGlue>>

\* __setMockAiForTesting(mockAi): null or one of two mock objects.
SetMockAiForTesting(mockAi) ==
  /\ ai' = mockAi
  /\ UNCHANGED <<apiKey, constructed, getResult, sequenceCall, sequenceResult,
                 upload, submit, exGlue>>

\* The environment sets or deletes process.env.API_KEY.
SetApiKey(key) ==
  /\ apiKey # key
  /\ apiKey' = key
  /\ UNCHANGED <<ai, constructed, getResult, sequenceCall, sequenceResult,
                 upload, submit, exGlue>>

NextClient ==
  \/ GetGenAI
  \/ \E mockAi \in {0, -1, -2} : SetMockAiForTesting(mockAi)
  \/ \E key \in {"unset", "", "test-api-key"} : SetApiKey(key)

SpecClient == InitVideo /\ [][NextClient]_vars

\* ----------------- SpecSequence: createVideoSequence on a model response
\* The response is not JSON, lacks editDecisions or creativeRationale, or
\* holds up to MaxDecisions edit decisions.
InitSequence ==
  /\ \E revision \in {"geminiService.ts", "part_003"}, clips \in 0 .. 2,
        audioDuration \in {0, 10}, kind \in {"json", "notJson", "noStructure"},
        n \in 0 .. MaxDecisions :
       \E editDecisions \in
            [1 .. n -> [clipIndex : {-1, 0, 3},
                        typeofClipIndex : {"number", "string"},
                        duration : {0, 5}, description : {"", "a clip"}]] :
         /\ kind # "json" => n = 0
         /\ sequenceCall =
              [revision |-> revision, clips |-> clips,
               audioDuration |-> audioDuration,
               response |-> [kind |-> kind, editDecisions |-> editDecisions]]
  /\ sequenceResult = NotReturned
  /\ ai = 0
  /\ apiKey = "unset"
  /\ constructed = 0
  /\ getResult = NotReturned
  /\ upload = NoInput
  /\ submit = NotReturned
  /\ buffer = NoInput
  /\ energySegments = NotReturned
  /\ combinedOdf = NoInput
  /\ beatAnalysis = NotReturned
  /\ sampled = NoInput
  /\ frameAnalysis = NotReturned
  /\ InitQ(constructor(2))
  /\ lastOp = NoOp
  /\ InitV(videoModule)
  /\ InitAU(audioModule)
  /\ InitA(app(emptyStore))

\* The promise returned by createVideoSequence settles.
CreateVideoSequence ==
  /\ ~sequenceResult.returned
  /\ sequenceResult' = [returned |-> TRUE,
                        value |-> createVideoSequence(sequenceCall)]
  /\ UNCHANGED <<sequenceCall, ai, apiKey, constructed, getResult, upload,
                 submit, exGlue>>

SpecSequence == InitSequence /\ [][CreateVideoSequence]_vars

\* ------------------------------------------- SpecUpload: VideoUpload.tsx
\* A file is <<name, lastModified, size>>, the name being the sequence of
\* the parts that its dashes separate, so that template strings joined by
\* dashes are concatenations. getClipMetadata gives the clip of a file the id
\* `${file.name}-${file.lastModified}-${file.size}`.
\* atLeastOneClipReady: some selected file finds, under the key
\* `${file.name}-${file.lastModified}`, a clip of the library that is ready.
atLeastOneClipReady(up) ==
  \E file \in up.allSelectedFiles :
    \E clip \in DOMAIN up.clipLibrary :
      /\ up.clipLibrary[clip] # "absent"
      /\ clip[1] \o <<clip[2], clip[3]>> = file[1] \o <<file[2]>>
      /\ up.clipLibrary[clip] = "ready"

\* The form is shown for some clipLibrary (the analysisStatus of the clip of
\* each file, or "absent") and some selection of files.
InitUpload ==
  /\ \E files \in {{<<"a">>, <<"a", "5">>} \X {"5", "7"} \X {"7"}} :
       \E clipLibrary_ \in [files -> {"absent", "analyzing", "ready"}],
          allSelectedFiles \in SUBSET files :
         upload = [clipLibrary |-> clipLibrary_,
                   allSelectedFiles |-> allSelectedFiles]
  /\ submit = NotReturned
  /\ sequenceCall = NoInput
  /\ sequenceResult = NotReturned
  /\ ai = 0
  /\ apiKey = "unset"
  /\ constructed = 0
  /\ getResult = NotReturned
  /\ buffer = NoInput
  /\ energySegments = NotReturned
  /\ combinedOdf = NoInput
  /\ beatAnalysis = NotReturned
  /\ sampled = NoInput
  /\ frameAnalysis = NotReturned
  /\ InitQ(constructor(2))
  /\ lastOp = NoOp
  /\ InitV(videoModule)
  /\ InitAU(audioModule)
  /\ InitA(app(emptyStore))

\* handleSubmit
HandleSubmit ==
  /\ ~submit.returned
  /\ submit' =
       [returned |-> TRUE,
        value |->
          IF upload.allSelectedFiles = {}
          THEN [onSubmit |-> FALSE,
                error |-> "Please upload or select at least one video clip."]
          ELSE IF ~atLeastOneClipReady(upload)
          THEN [onSubmit |-> FALSE,
                error |-> "Please wait for at least one clip to finish analyzing"]
          ELSE [onSubmit |-> TRUE, error |-> "none"]]
  /\ UNCHANGED <<upload, sequenceCall, sequenceResult, ai, apiKey, constructed,
                 getResult, exGlue>>

SpecUpload == InitUpload /\ [][HandleSubmit]_vars

\* ------------------------- SpecMotion: the worker on the sampled frames
\* extractFramesAsImageBitmaps resolves with one bitmap for each frame time.
\* The durations (hundredths of a second) give one frame time by the default,
\* one by the filter, and three (clips of 2 s, 8 s and 20 s); the frames of
\* one video have one size, up to MaxPixels arbitrary pixels or 10x10 pixels
\* of one value.
InitMotion ==
  /\ InitGlue
  /\ LET FrameSets == {[1 .. n -> PixelValues] : n \in 1 .. MaxPixels}
                        \cup {{[k \in 1 .. 100 |-> p] : p \in PixelValues}}
     IN \E duration \in {10, 20, 200, 800, 2000}, F \in FrameSets :
          \E bitmaps \in [1 .. Len(frameTimes(duration)) -> F] :
            sampled = [duration |-> duration, bitmaps |-> bitmaps]
  /\ frameAnalysis = NotReturned
  /\ buffer = NoInput
  /\ energySegments = NotReturned
  /\ combinedOdf = NoInput
  /\ beatAnalysis = NotReturned
  /\ InitQ(constructor(2))
  /\ lastOp = NoOp
  /\ InitV(videoModule)
  /\ InitAU(audioModule)
  /\ InitA(app(emptyStore))

\* The worker of either copy of the service handles the posted bitmaps.
AnalyzeFrames(rev) ==
  /\ ~frameAnalysis.returned
  /\ frameAnalysis' = [returned |-> TRUE,
                       value |-> workerOnmessage(rev, sampled.bitmaps)]
  /\ UNCHANGED <<sampled, buffer, energySegments, combinedOdf, beatAnalysis,
               exPure>>

NextMotion ==
  \E rev \in {"videoExportService.ts", "part_005"} : AnalyzeFrames(rev)

SpecMotion == InitMotion /\ [][NextMotion]_vars

\* ------------------------------------------------ AnalysisQueue properties
Running == {t \in TaskIds : work[t] = "running"}
Settled == {"resolved", "rejected", "cancelled", "cleared"}
Sorted(s) == \A i, j \in 1 .. Len(s) : i < j => s[i] < s[j]

\* C1: the number of tasks that have been dispatched and have not finished
\* never exceeds the concurrency limit, whatever pushes, cancels,
\* clearPending calls and completions happened.
C1_BoundedConcurrency == Cardinality(Running) <= maxConcurrent

C1_Witness ==
  /\ Cardinality(Running) = maxConcurrent
  /\ queue # <<>>
  /\ \E t, u, v \in TaskIds :
       promise[t] = "rejected" /\ promise[u] = "cancelled" /\ promise[v] = "cleared"

\* C2: tasks start in the order they were pushed, and a step starts a task
\* only if a slot was free before it or the step is the completion of a
\* running task; in particular a task pushed while maxConcurrent tasks are
\* running is left waiting by the push.
C2_FifoDispatch ==
  [][ /\ Sorted(started')
      /\ started' # started => (running < maxConcurrent \/ lastOp'.op = "settle")
      /\ (lastOp'.op = "push" /\ running = maxConcurrent)
           => (started' = started /\ work'[nextTaskId] = "idle"
               /\ queue' = Append(queue, nextTaskId)) ]_vars

C2_Witness ==
  /\ maxConcurrent = 2
  /\ started = <<0, 1, 2>>
  /\ queue = <<3, 4>>
  /\ lastOp.op = "settle"

\* C3: cancel() on a waiting task returns true, removes the task from the
\* waiting list and rejects its promise with the cancellation error; a task
\* cancelled this way stays cancelled, out of the list and unexecuted in
\* every later step.
C3_CancelWaiting ==
  [][ /\ (lastOp'.op = "cancel" /\ InQueue(queue, lastOp'.id))
           => /\ lastOp'.ret
              /\ ~InQueue(queue', lastOp'.id)
              /\ Len(queue') = Len(queue) - 1
              /\ promise'[lastOp'.id] = "cancelled"
              /\ work'[lastOp'.id] = "idle"
      /\ \A t \in TaskIds :
           promise[t] = "cancelled"
             => /\ promise'[t] = "cancelled"
                /\ work'[t] = "idle"
                /\ ~InQueue(queue', t) ]_vars

C3_Witness ==
  \E t, u \in TaskIds :
    /\ t < u
    /\ promise[t] = "cancelled" /\ work[t] = "idle"
    /\ work[u] = "returned"
    /\ lastOp.op = "settle"

\* C4: cancel() on a task that is no longer waiting (running or finished)
\* returns false and leaves the whole queue state as it was.
C4_CancelDispatched ==
  [][ (lastOp'.op = "cancel" /\ ~InQueue(queue, lastOp'.id))
        => /\ ~lastOp'.ret
           /\ UNCHANGED <<maxConcurrent, running, queue, nextTaskId, promise,
                          work, taskFn, started>> ]_vars

C4_Witness ==
  /\ lastOp.op = "cancel"
  /\ ~lastOp.ret
  /\ work[lastOp.id] = "running"
  /\ promise[lastOp.id] = "pending"
  /\ queue # <<>>

\* C5: clearPending() rejects exactly the tasks waiting at the call with the
\* cleared error, empties the waiting list, and leaves the running count and
\* every other task's promise and work untouched.
C5_ClearPending ==
  [][ lastOp'.op = "clearPending"
        => /\ queue' = <<>>
           /\ \A t \in TaskIds :
                promise'[t] = IF InQueue(queue, t) THEN "cleared" ELSE promise[t]
           /\ UNCHANGED <<running, work, started, nextTaskId, maxConcurrent>> ]_vars

C5_Witness ==
  /\ lastOp.op = "clearPending"
  /\ running = maxConcurrent
  /\ Cardinality({t \in TaskIds : promise[t] = "cleared"}) >= 2
  /\ \A t \in Running : promise[t] = "pending"

\* C6: a promise becomes rejected by a task failure only when that task's
\* own taskFn failed, a settled promise never changes, every task that ran
\* settles with its own result, the running counter stays equal to the
\* number of running tasks, and the failing completion of a task dispatches
\* the head of the waiting list.
C6_FailureIsolated ==
  [][ /\ \A t \in TaskIds :
           /\ (promise'[t] # promise[t] /\ promise'[t] = "rejected")
                => (work'[t] = "threw" /\ work[t] # "threw")
           /\ promise[t] \in Settled => promise'[t] = promise[t]
           /\ work'[t] = "returned" => promise'[t] = "resolved"
           /\ work'[t] = "threw" => promise'[t] = "rejected"
      /\ running' = Cardinality({t \in TaskIds : work'[t] = "running"})
      /\ (lastOp'.op = "settle" /\ ~lastOp'.ret /\ queue # <<>>)
           => InQueue(started', Head(queue)) ]_vars

C6_Witness ==
  \E t, u, v \in TaskIds :
    /\ t < u /\ u < v
    /\ promise[t] = "resolved"
    /\ promise[u] = "rejected" /\ taskFn[u] = "async"
    /\ promise[v] = "resolved"
    /\ \E w \in TaskIds : taskFn[w] = "throws" /\ promise[w] = "rejected"

\* ------------------------------------------ videoAnalysisService properties
CallIds == 1 .. Len(calls)
\* What the caller of call c observes: the state of the promise it was given.
Outcome(c) == vtask[calls[c].task].promise
RECURSIVE SumExtractions(_, _)
SumExtractions(ts, f) ==
  IF ts = {} THEN 0
  ELSE LET t == CHOOSE x \in ts : TRUE
       IN (IF vtask[t].file = f THEN vtask[t].extractions ELSE 0)
          + SumExtractions(ts \ {t}, f)

\* C7: a call of analyzeVideoContent made while a RunningTask for the same
\* file identity is registered joins that task: it starts no frame
\* extraction of its own (extractions for a file = calls that found no
\* entry), the joined task has one extraction and at most one message posted
\* (exactly one once its frames are posted), and the joining caller observes
\* the same outcome as every other caller of that task.
C7_DedupInFlight ==
  /\ \A c \in CallIds :
       calls[c].found # 0
         => /\ calls[c].task = calls[c].found
            /\ vtask[calls[c].task].extractions = 1
            /\ vtask[calls[c].task].posts <= 1
            /\ (vtask[calls[c].task].phase \in {"posted", "replied"}
                  => vtask[calls[c].task].posts = 1)
            /\ \A d \in CallIds :
                 (d < c /\ calls[d].file = calls[c].file
                        /\ calls[d].task = calls[c].found)
                   => Outcome(d) = Outcome(c)
  /\ \A f \in FileIds :
       SumExtractions(VTaskIds, f)
         = Cardinality({c \in CallIds : calls[c].file = f /\ calls[c].found = 0})

C7_Witness ==
  \E c, d \in CallIds :
    /\ d < c
    /\ calls[c].file = calls[d].file
    /\ calls[c].found # 0 /\ calls[d].found = 0
    /\ calls[c].task = calls[d].task
    /\ vtask[calls[c].task].phase = "replied"
    /\ Outcome(c) = "resolved"

\* ------------------------------------------------------- App properties
\* The tasks of clip c that are waiting in the queue or running.
InFlight(c) ==
  {t \in TaskIds : taskClip[t] = c /\ (InQueue(queue, t) \/ work[t] = "running")}

\* C8: for every clip identity at most one analysis task is waiting in the
\* AnalysisQueue or running, after any add-clips, retry and cancel requests.
C8_OneInFlightPerClip == \A c \in ClipIds : Cardinality(InFlight(c)) <= 1

\* C9: a clip's analysisStatus changes only along pending->analyzing,
\* analyzing->ready, analyzing->error and error->pending, the last one only
\* as the effect of a retry request (whose resumption may also dispatch the
\* clip's task in the same step, pending->analyzing).
C9_StatusTransitions ==
  [][ \A c \in ClipIds :
        LET from == clipLibrary[c].status
            to == clipLibrary'[c].status
        IN (from # "absent" /\ from # to)
             => \/ from = "pending" /\ to = "analyzing"
                \/ from = "analyzing" /\ to = "ready"
                \/ from = "analyzing" /\ to = "error"
                \/ /\ from = "error" /\ to \in {"pending", "analyzing"}
                   /\ \E files \in SUBSET ClipIds :
                        c \in files /\ MetadataDone(files, "retry", TRUE) ]_vars

\* C10: handleCancelAnalysis(clipId) sets the clip's record to status error
\* with the cancellation message when the handle's cancel() returned true
\* (which it does only for a registered handle of a waiting task, whose
\* promise it rejects), and leaves the clip library and the cancel-handle
\* map as they were when cancel() returned false or no handle is registered.
C10_CancelAnalysis ==
  [][ \A id \in ClipIds :
        CancelAnalysis(id)
          => LET t == cancellableTasks[id]
             IN IF t # -1 /\ cancel(Q, t).ret
                THEN /\ clipLibrary'[id]
                          = [status |-> "error", error |-> "cancelled"]
                     /\ InQueue(queue, t)
                     /\ promise'[t] = "cancelled"
                     /\ \A c \in ClipIds \ {id} :
                          clipLibrary'[c] = clipLibrary[c]
                ELSE UNCHANGED <<clipLibrary, cancellableTasks>> ]_vars

\* A clip whose waiting task was cancelled through its handle, next to a
\* clip whose registered task is running (cancel() on it returns false).
C10_Witness ==
  /\ \E c \in ClipIds, t \in TaskIds :
       /\ clipLibrary[c] = [status |-> "error", error |-> "cancelled"]
       /\ cancellableTasks[c] = -1
       /\ taskClip[t] = c /\ t < nextTaskId
       /\ promise[t] = "cancelled"
       /\ \A i \in 1 .. Len(started) : started[i] # t
  /\ \E d \in ClipIds :
       /\ cancellableTasks[d] # -1
       /\ work[cancellableTasks[d]] = "running"
       /\ ~cancel(Q, cancellableTasks[d]).ret

\* C11: a retry request starts a new analysis (an invocation of
\* handleClipsAdded for that one clip) only when the clip's status is error;
\* for any other clip it submits nothing and changes no state.
C11_RetryOnlyOnError ==
  [][ \A id \in ClipIds :
        RetryAnalysis(id)
          => IF clipLibrary[id].status = "error"
             THEN /\ batches' = batches
                                  (+) SetToBag({[files |-> {id}, by |-> "retry"]})
                  /\ UNCHANGED <<qvars, clipLibrary, cancellableTasks, db,
                                 taskClip, phase>>
             ELSE UNCHANGED vars ]_vars

\* A retry of an errored clip is awaiting its metadata while another clip
\* is being analysed (a retry request on that one submits nothing).
C11_Witness ==
  /\ \E b \in BagToSet(batches), c \in ClipIds :
       b.by = "retry" /\ b.files = {c} /\ clipLibrary[c].status = "error"
  /\ \E d \in ClipIds : clipLibrary[d].status = "analyzing"

\* ------------------------------------------------ media service properties
\* The video half of C12: the caller of a video task is eventually unblocked
\* (the timeout armed by analyzeVideoContent fires unless the task settled).
C12_VideoTimeout ==
  \A t \in VTaskIds :
    (vtask[t].promise = "pending") ~> (vtask[t].promise # "pending")

\* The audio half of C12: the caller of an audio task is eventually unblocked.
C12_AudioTimeout ==
  \A id \in AudioIds :
    (audioTask[id].promise = "pending") ~> (audioTask[id].promise # "pending")

\* C12: every analysis task, video and audio alike, that has not completed
\* when its wall-clock budget expires has its caller's promise rejected, so
\* a waiting caller is eventually unblocked even if the worker never answers.
C12_TimeoutUnblocks == C12_VideoTimeout /\ C12_AudioTimeout

\* The video context went away in this step: every registered task is
\* rejected with one of the given reasons, the map is empty, worker is null.
VideoTornDown(reasons) ==
  /\ \A f \in FileIds :
       runningTasks[f] # 0 => vtask'[runningTasks[f]].promise \in reasons
  /\ \A f \in FileIds : runningTasks'[f] = 0
  /\ worker' = 0

\* The same for the audio context.
AudioTornDown(reasons) ==
  /\ \A id \in audioRunningTasks : audioTask'[id].promise \in reasons
  /\ audioRunningTasks' = {}
  /\ audioWorker' = 0

\* C13: when a context goes away, by terminateWorker() or by a worker crash,
\* every task registered against it at that moment is rejected with a
\* termination/crash error, the task map is left empty and the worker
\* reference is cleared, so that the next analyze call creates a fresh
\* worker; for the video and for the audio service.
C13_TeardownRejectsAll ==
  [][ /\ TerminateWorker => VideoTornDown({"terminated"})
      /\ \A reason \in {"crashed", "messageError"} :
           WorkerError(reason) => VideoTornDown({reason})
      /\ TerminateAudio => AudioTornDown({"terminated"})
      /\ AudioError => AudioTornDown({"crashed"})
      /\ \A f \in FileIds :
           (Analyze(f) /\ worker = 0) => worker' \notin 0 .. workersCreated
      /\ (AnalyzeAudio /\ audioWorker = 0)
           => audioWorker' \notin 0 .. audioWorkersCreated ]_vars

\* An audio task was rejected by a teardown and a later call is pending on
\* the fresh worker created after it.
C13_Witness ==
  \E i, j \in AudioIds :
    /\ audioTask[i].promise \in {"terminated", "crashed"}
    /\ audioTask[j].promise = "pending"
    /\ audioTask[i].gen = 1 /\ audioTask[j].gen = 2
    /\ audioWorker = 2
    /\ audioRunningTasks = {j}

\* ---------------------------------------------------- analyzeEnergy properties
\* Number of one-second windows of the buffer.
NumWindows == Len(windows(buffer.data, buffer.sampleRate, 0))

\* C14: for a buffer with at least one sample the list returned by
\* analyzeEnergy is a contiguous partition of [0, duration): it is not empty,
\* the first segment starts at 0, each segment starts where the previous one
\* ends, every segment has startTime < endTime, and the last endTime is
\* sampleCount / sampleRate.
C14_EnergyPartition ==
  energySegments.returned
    => LET segs == energySegments.value
           n == Len(segs)
       IN /\ n >= 1
          /\ QuotEq(segs[1].startTime, Quot(0, 1))
          /\ \A i \in 1 .. (n - 1) :
               QuotEq(segs[i + 1].startTime, segs[i].endTime)
          /\ \A i \in 1 .. n : QuotLt(segs[i].startTime, segs[i].endTime)
          /\ QuotEq(segs[n].endTime,
                    Quot(Len(buffer.data), buffer.sampleRate))

\* A result with several segments, at least one of them merged from several
\* windows, for a buffer whose last window is shorter than one second.
C14_Witness ==
  /\ energySegments.returned
  /\ Len(energySegments.value) >= 2
  /\ Len(energySegments.value) < NumWindows
  /\ Len(buffer.data) % buffer.sampleRate # 0

\* C15: for a buffer of all-zero samples of any positive length analyzeEnergy
\* returns exactly one segment, spanning the whole duration, of intensity low.
C15_SilenceLow ==
  (energySegments.returned /\ \A i \in 1 .. Len(buffer.data) : buffer.data[i] = 0)
    => /\ Len(energySegments.value) = 1
       /\ QuotEq(energySegments.value[1].startTime, Quot(0, 1))
       /\ QuotEq(energySegments.value[1].endTime,
                 Quot(Len(buffer.data), buffer.sampleRate))
       /\ energySegments.value[1].intensity = "low"

\* ----------------------------------------------------- analyzeBeats properties
\* The peaks picked in the combined ODF.
Peaks ==
  pickPeaks(combinedOdf.odf, 1, combinedOdf.sampleRate \div (hopLength * 2))

\* C16: for every input the bpm returned by analyzeBeats is an integer with
\* 70 <= bpm <= 180, the default returned when no tempo can be estimated
\* included.
C16_BpmRange ==
  beatAnalysis.returned => beatAnalysis.value.bpm \in 70 .. 180

\* A tempo estimated from at least four peaks that the octave correction
\* brought into the range: the intervals between the peaks correspond to a
\* tempo below 70 or above 360.
C16_Witness ==
  /\ beatAnalysis.returned
  /\ Len(beatAnalysis.value.beats) >= 4
  /\ beatAnalysis.value.bpm # 120
  /\ \A i \in 2 .. Len(Peaks) :
       LET delta == Peaks[i] - Peaks[i - 1]
       IN \/ 60 * combinedOdf.sampleRate < 70 * delta * hopLength
          \/ 60 * combinedOdf.sampleRate > 360 * delta * hopLength

\* C17: whenever fewer than 4 onset peaks are detected in the combined ODF,
\* analyzeBeats returns bpm = 120 and an empty beats list.
C17_FewPeaksDefault ==
  (beatAnalysis.returned /\ Len(Peaks) < 4)
    => beatAnalysis.value = [bpm |-> 120, beats |-> <<>>]

\* A combined ODF with exactly three peaks, whose intervals would give a
\* tempo, for which analyzeBeats has returned.
C17_Witness ==
  /\ beatAnalysis.returned
  /\ Len(Peaks) = 3
  /\ (Peaks[2] - Peaks[1]) * hopLength * 10 > combinedOdf.sampleRate

\* ------------------------------------------------ video frame properties
\* The pixels of the scenario, and the first and the last of the sampled
\* frames.
Black == <<0, 0, 0, 255>>
Grey31 == <<31, 31, 31, 255>>
First == sampled.bitmaps[1]
Last == sampled.bitmaps[Len(sampled.bitmaps)]

\* C18: two frames with identical pixel data give 'static', and when fewer
\* than two frames are sampled the worker reports motionLevel 'static'.
C18_IdenticalStatic ==
  frameAnalysis.returned
    => /\ (Len(sampled.bitmaps) < 2 \/ First = Last)
            => /\ frameAnalysis.value.success
               /\ frameAnalysis.value.motionLevel = "static"
       /\ \A f \in {First, Last} :
            calculateMotionFromImageData(frameAnalysis.value.revision, f, f)
              = "static"

\* The worker replied for three frames whose first and last are identical
\* and whose central frame differs from them by more than 10%.
C18_Witness ==
  /\ frameAnalysis.returned
  /\ Len(sampled.bitmaps) = 3
  /\ First = Last
  /\ calculateMotionFromImageData(frameAnalysis.value.revision,
                                  First, sampled.bitmaps[2]) = "high"

\* The sampled frames are 10x10, one of the first and last fully black and
\* the other fully (31,31,31).
BlackAgainst31 ==
  /\ Len(sampled.bitmaps) > 1
  /\ Len(First) = 100
  /\ \E a, b \in {Black, Grey31} :
       /\ a # b
       /\ \A k \in 1 .. 100 : First[k] = a /\ Last[k] = b

\* C19: for two 10x10 frames, one fully black and one fully (31,31,31), the
\* motion score is 9300/306000 (about 0.0303) and the pair is classified
\* 'medium'.
C19_Black31Medium ==
  (frameAnalysis.returned /\ BlackAgainst31)
    => /\ QuotEq(motionScore(frameAnalysis.value.revision, First, Last),
                 Reduced(9300, 306000))
       /\ frameAnalysis.value.motionLevel = "medium"

\* C19 (amended): for two 10x10 frames, one fully black and one fully
\* (31,31,31), the copy in videoExportService.ts divides the difference 9300
\* by 306000 and classifies the pair 'medium' (score about 0.0304), and the
\* copy in part_005 divides it by 76500 and classifies the pair 'high'
\* (score about 0.1216).
C19_Black31ByRevision ==
  (frameAnalysis.returned /\ BlackAgainst31)
    => LET score == motionScore(frameAnalysis.value.revision, First, Last)
       IN IF frameAnalysis.value.revision = "part_005"
          THEN /\ QuotEq(score, Reduced(9300, 76500))
               /\ frameAnalysis.value.motionLevel = "high"
          ELSE /\ QuotEq(score, Reduced(9300, 306000))
               /\ frameAnalysis.value.motionLevel = "medium"

\* The worker of part_005 replied for a black 10x10 frame followed by two
\* 10x10 frames of (31,31,31).
C19_Witness ==
  /\ frameAnalysis.returned
  /\ BlackAgainst31
  /\ First[1] = Black
  /\ frameAnalysis.value.revision = "part_005"
  /\ frameAnalysis.value.motionLevel = "high"

\* C20: the summed difference is normalised by pixels x 3 x 255, so any pair
\* of first and last frame whose mean per-channel absolute difference exceeds
\* 10% of 255 is classified 'high'; in particular 10x10 black against
\* uniform (31,31,31).
C20_PixelNormalised ==
  (frameAnalysis.returned /\ Len(sampled.bitmaps) > 1)
    => /\ maxDiff(frameAnalysis.value.revision, First) = Len(First) * 3 * 255
       /\ diff(First, Last, 1) * 10 > Len(First) * 3 * 255
            => frameAnalysis.value.motionLevel = "high"

\* C21: analyzeVideoContent samples 1 frame of a clip shorter than 3 s, 2
\* frames of a clip shorter than 10 s, and 3 frames, at 20%, 50% and 80% of
\* the duration, of a clip of 10 s or longer.
C21_FramesByDuration ==
  LET duration == sampled.duration
      n == Len(sampled.bitmaps)
  IN IF duration < 300 THEN n = 1
     ELSE IF duration < 1000 THEN n = 2
     ELSE /\ n = 3
          /\ frameTimes(duration) = <<2 * duration, 5 * duration, 8 * duration>>

\* C22: createVideoSequence called with an empty clips array returns an
\* editDecisionList of length 0, whatever edit decisions the response holds.
C22_EmptyClipsEmptyList ==
  (sequenceResult.returned /\ sequenceCall.clips = 0)
    => /\ ~sequenceResult.value.threw
       /\ Len(sequenceResult.value.editDecisionList) = 0

\* C23: getGenAI is a lazily created singleton. The constructor runs only
\* when no instance is cached; a call made while an instance is cached (after
\* a successful call or after __setMockAiForTesting with a non-null mock)
\* returns that instance and leaves it cached; a call made with no instance
\* cached and API_KEY unset throws and leaves no instance cached.
C23_LazySingleton ==
  [][GetGenAI =>
       /\ ai # 0 => /\ constructed' = constructed
                    /\ getResult'.value = [threw |-> FALSE, instance |-> ai]
                    /\ ai' = ai
       /\ (ai = 0 /\ apiKey = "unset")
            => /\ getResult'.value.threw
               /\ ai' = 0
               /\ constructed' = constructed
       /\ constructed' # constructed
            => /\ ai = 0 /\ constructed' = constructed + 1
               /\ ai' = constructed'
               /\ getResult'.value = [threw |-> FALSE, instance |-> ai']]_vars

\* The constructed instance is still returned after API_KEY was deleted.
C23_Witness ==
  /\ getResult.returned
  /\ getResult.value = [threw |-> FALSE, instance |-> 1]
  /\ ai = 1
  /\ constructed = 1
  /\ apiKey = "unset"

\* C24: handleSubmit calls onSubmit if and only if at least one selected file
\* has a clip-library record, looked up by the identity getClipMetadata
\* assigned to its clip, whose analysisStatus is 'ready'.
C24_SubmitIffReady ==
  submit.returned
    => (submit.value.onSubmit
          <=> \E file \in upload.allSelectedFiles :
                upload.clipLibrary[file] = "ready")

\* C25: every completion of a dispatched task decrements the running count by
\* exactly one (the tasks it dispatches and leaves running count one each) and
\* dispatches the head of the waiting list if there is one; and if every
\* running task eventually finishes, every pushed task that is neither
\* cancelled nor cleared is eventually dispatched.
C25_CompletionDispatches ==
  /\ [][\A id \in TaskIds, ok \in BOOLEAN :
          Settle(id, ok) =>
            /\ running' = running - 1
                 + Cardinality({t \in TaskIds :
                                  work[t] = "idle" /\ work'[t] = "running"})
            /\ queue # <<>> => work'[Head(queue)] # "idle"]_vars
  /\ \A t \in 0 .. (MaxFairTasks - 1) :
       (promise[t] = "pending" /\ work[t] = "idle")
         ~> (work[t] # "idle" \/ promise[t] \in {"cancelled", "cleared"})
C25_Witness ==
  /\ lastOp.op = "settle"
  /\ running = maxConcurrent
  /\ \E t \in TaskIds : work[t] = "running" /\ t > lastOp.id

\* C26 as stated: whenever at least 4 onset peaks are detected, the returned
\* beats list holds exactly one beat per detected peak, in peak order, with
\* timestamp = index x hop / sampleRate and confidence 1.0.
C26_BeatPerPeak ==
  (beatAnalysis.returned /\ Len(Peaks) >= 4)
    => /\ Len(beatAnalysis.value.beats) = Len(Peaks)
       /\ \A k \in 1 .. Len(Peaks) :
            /\ QuotEq(beatAnalysis.value.beats[k].timestamp,
                      Quot(Peaks[k] * hopLength, combinedOdf.sampleRate))
            /\ beatAnalysis.value.beats[k].confidence = 1

\* Some interval between consecutive peaks is longer than 0.1 s.
SomeTempo ==
  \E i \in 2 .. Len(Peaks) :
    (Peaks[i] - Peaks[i - 1]) * hopLength * 10 > combinedOdf.sampleRate

\* C26 amended: whenever at least 4 onset peaks are detected and some interval
\* between consecutive peaks is longer than 0.1 s, the returned beats list
\* holds exactly one beat per detected peak, in peak order, with timestamp =
\* index x hop / sampleRate and confidence 1.0; when no interval is longer than
\* 0.1 s the result is the default, bpm 120 with no beats.
C26_BeatPerPeakWithTempo ==
  (beatAnalysis.returned /\ Len(Peaks) >= 4)
    => IF SomeTempo
       THEN /\ Len(beatAnalysis.value.beats) = Len(Peaks)
            /\ \A k \in 1 .. Len(Peaks) :
                 /\ QuotEq(beatAnalysis.value.beats[k].timestamp,
                           Quot(Peaks[k] * hopLength, combinedOdf.sampleRate))
                 /\ beatAnalysis.value.beats[k].confidence = 1
       ELSE beatAnalysis.value = [bpm |-> 120, beats |-> <<>>]
\* At least 4 peaks with a tempo, one interval at most 0.1 s long among them.
C26_Witness ==
  /\ beatAnalysis.returned
  /\ Len(Peaks) >= 4
  /\ SomeTempo
  /\ \E i \in 2 .. Len(Peaks) :
       ~((Peaks[i] - Peaks[i - 1]) * hopLength * 10 > combinedOdf.sampleRate)

\* C27: the audio worker processes one file at a time: it does not begin
\* performAnalysis for a later request until the analysis of every earlier
\* request has posted its result.
C27_OneFileAtATime ==
  [][\A id \in AudioIds :
       SelfOnmessage(id) =>
         \A e \in AudioIds :
           (e < id /\ audioTask[e].gen = audioWorker)
             => audioTask[e].phase = "replied"]_vars

\* C28: after every push, cancel, clearPending and task completion the waiting
\* list is non-empty only if exactly maxConcurrent tasks are running, and the
\* running counter equals the number of dispatched-but-unfinished tasks, and
\* is never negative.
C28_WorkConserving ==
  /\ queue # <<>> => running = maxConcurrent
  /\ running = Cardinality({t \in TaskIds : work[t] = "running"})
  /\ running >= 0
\* A completion has left tasks waiting behind maxConcurrent running ones.
C28_Witness ==
  /\ lastOp.op = "settle"
  /\ Len(queue) >= 2
  /\ running = maxConcurrent
  /\ maxConcurrent = 2

\* C29: a caller of analyzeVideoContent is settled only by the worker job
\* posted for its own task: the response to the job of a task, whenever it
\* arrives, settles no other task (in particular no later task registered for
\* the same file identity after the timeout removed the first).
C29_OwnJobSettles ==
  [][\A t \in VTaskIds, success \in BOOLEAN :
       WorkerReply(t, success) =>
         \A u \in VTaskIds \ {t} : vtask'[u].promise = vtask[u].promise]_vars

\* C30: an entry of runningTasks is removed only on behalf of the task that
\* registered it: the timeout and the frame-extraction failure path of a task
\* leave the registration of every other task in the map.
C30_OwnEntryRemoved ==
  [][\A t \in VTaskIds :
       (Timeout(t) \/ ExtractFail(t)) =>
         \A f \in FileIds :
           runningTasks[f] \notin {0, t} => runningTasks'[f] = runningTasks[f]]_vars

====
